---------------------------- MODULE Spec2Model ----------------------------
(***************************************************************************)
(* Model of the opportunity-scoring core of ecommerce-ai-research:         *)
(*   - ProductAnalysisEngine.extract_numeric_score  (src/ai_analyzer.py)   *)
(*   - KeywordAnalyzer.extract_numeric_score        (src/ai_analyzer.py)   *)
(*   - ProductAnalysisEngine.calculate_opportunity_score                   *)
(*                                                                         *)
(* Texts are sequences of one-character strings.  Regular expressions are  *)
(* values interpreted by a backtracking matcher with the priorities of     *)
(* Python's re module (greedy repetition, leftmost alternative first,      *)
(* re.search = leftmost start).  Floats are exact decimals, stored as      *)
(* integers scaled by Scale.                                               *)
(***************************************************************************)
EXTENDS Integers, Sequences, FiniteSets, TLC

VARIABLES
    text,      \* the text argument of the current extractor call
    default,   \* the default argument of the current extractor call
    pc,        \* "ready" before the call; then the name of the call that returned
    result,    \* the value the extractor returned
    fired,     \* index of the pattern whose match produced result (0: none)
    analysis,  \* the dict passed to calculate_opportunity_score
    competition_score,  \* calculate_opportunity_score's local of that name
    composite, \* the value calculate_opportunity_score returned
    batch_product,     \* batch_analyze_products: the loop variable product
    batch_analysis,    \* batch_analyze_products: the local analysis
    analysis_results,  \* batch_analyze_products: the dict it builds and returns
    iterations,        \* batch_analyze_products: loop iterations run so far
    product,      \* the product dict passed to a factor method
    llama,        \* what the request of query_llama met: a status or an error
    ai_response,  \* the text query_llama returned
    competition_count,  \* analyze_competition: len(similar_products)
    returned,     \* the dict the factor method returned
    all_results,         \* collect_product_data: platform -> products so far
    total_products,      \* collect_product_data: the running total
    searches,            \* collect_product_data: keyword/category pairs done
    collection_results,  \* collect_product_data: the dict it returned
    workflow_result,     \* trigger_research_workflow: the dict it builds
    notification_data,   \* send_workflow_notification: the payload it built
    clock                \* datetime.now(), in ticks

extractVars == <<text, default, result, fired>>

scoreVars == <<analysis, competition_score, composite>>

batchVars == <<batch_product, batch_analysis, analysis_results, iterations>>

factorVars == <<product, llama, ai_response, competition_count, returned>>

collectVars == <<all_results, total_products, searches, collection_results>>

workflowVars == <<workflow_result, notification_data, clock>>

vars == <<text, default, pc, result, fired, analysis, competition_score, composite,
          batch_product, batch_analysis, analysis_results, iterations,
          product, llama, ai_response, competition_count, returned,
          all_results, total_products, searches, collection_results,
          workflow_result, notification_data, clock>>

-----------------------------------------------------------------------------
(* Bounds *)

\* Texts are concatenations of at most MaxSegs segments of Segments.
MaxSegs == 3

-----------------------------------------------------------------------------
(* Decimal numbers: a float v is stored as the integer v * Scale.  A number *)
(* token of a text of MaxSegs segments has fewer than MaxSegs fraction      *)
(* digits, so Scale keeps every parsed value exact.                         *)

RECURSIVE Pow10(_)
Pow10(n) == IF n = 0 THEN 1 ELSE 10 * Pow10(n - 1)

Scale == Pow10(MaxSegs)

\* The float literal whole.tenths, e.g. F(7, 5) = 7.5
F(whole, tenths) == whole * Scale + tenths * (Scale \div 10)

Digits == <<"0", "1", "2", "3", "4", "5", "6", "7", "8", "9">>

DigitSet == {Digits[i] : i \in 1..10}

DigitVal(c) == (CHOOSE i \in 1..10 : Digits[i] = c) - 1


-----------------------------------------------------------------------------
(* Python values *)

PyFloat(v) == [type |-> "float", v |-> v]

PyNone == [type |-> "NoneType"]

\* no call of batch_analyze_products is under way
BatchIdle ==
    /\ batch_product = PyNone
    /\ batch_analysis = PyNone
    /\ analysis_results = PyNone
    /\ iterations = 0

\* no call of a factor method is under way
FactorIdle ==
    /\ product = PyNone
    /\ llama = PyNone
    /\ ai_response = <<>>
    /\ competition_count = 0
    /\ returned = PyNone

\* no call of collect_product_data is under way
CollectIdle ==
    /\ all_results = PyNone
    /\ total_products = 0
    /\ searches = 0
    /\ collection_results = PyNone

\* no call of trigger_research_workflow is under way
WorkflowIdle ==
    /\ workflow_result = PyNone
    /\ notification_data = PyNone
    /\ clock = 0

\* str.lower() on the ASCII letters
UpperCase == <<"A", "B", "C", "D", "E", "F", "G", "H", "I", "J", "K", "L", "M",
               "N", "O", "P", "Q", "R", "S", "T", "U", "V", "W", "X", "Y", "Z">>

LowerCase == <<"a", "b", "c", "d", "e", "f", "g", "h", "i", "j", "k", "l", "m",
               "n", "o", "p", "q", "r", "s", "t", "u", "v", "w", "x", "y", "z">>

UpperSet == {UpperCase[i] : i \in 1..26}

LowerChar(c) ==
    IF c \in UpperSet THEN LowerCase[CHOOSE i \in 1..26 : UpperCase[i] = c] ELSE c

Lower(t) == [i \in 1..Len(t) |-> LowerChar(t[i])]

\* float(token) for a token over digits and "."; anything float() rejects
\* (no digit, two dots, any other character) is a ValueError.
RECURSIVE DigitsToInt(_)
DigitsToInt(ds) ==
    IF ds = <<>> THEN 0
    ELSE 10 * DigitsToInt(SubSeq(ds, 1, Len(ds) - 1)) + DigitVal(ds[Len(ds)])

float(tok) ==
    LET dots == {i \in 1..Len(tok) : tok[i] = "."}
        okc  == \A i \in 1..Len(tok) : tok[i] \in DigitSet \cup {"."}
    IN  IF ~okc \/ Cardinality(dots) > 1 \/ Len(tok) = Cardinality(dots)
        THEN [ok |-> FALSE, v |-> 0]
        ELSE LET d    == IF dots = {} THEN Len(tok) + 1 ELSE CHOOSE i \in dots : TRUE
                 ip   == SubSeq(tok, 1, d - 1)
                 fp   == SubSeq(tok, d + 1, Len(tok))
             IN  [ok |-> TRUE,
                  v  |-> DigitsToInt(ip) * Scale
                         + DigitsToInt(fp) * Pow10(MaxSegs - Len(fp))]

-----------------------------------------------------------------------------
(* Regular expressions (the subset of Python's re the patterns use) *)

Lit(s)    == [op |-> "lit", s |-> s]            \* a literal string
Set(S)    == [op |-> "set", set |-> S]          \* a character class
Cat(a, b) == [op |-> "cat", a |-> a, b |-> b]   \* a b
Alt(a, b) == [op |-> "alt", a |-> a, b |-> b]   \* a|b
Opt(a)    == [op |-> "opt", a |-> a]            \* a?   (greedy)
Star(a)   == [op |-> "star", a |-> a]           \* a*   (greedy)
Plus(a)   == Cat(a, Star(a))                    \* a+   (greedy)
Grp(a)    == [op |-> "grp", a |-> a]            \* (a)  capturing group 1

RECURSIVE CatAll(_)
CatAll(rs) == IF Len(rs) = 1 THEN rs[1] ELSE Cat(rs[1], CatAll(Tail(rs)))

\* A matcher state is <<position, group-1 start, group-1 end>>.  M(re, t, st)
\* is the sequence of states in which a match of re begun in st can end, in
\* the order the backtracking engine tries them.
RECURSIVE M(_, _, _), Bind(_, _, _)
M(re, t, st) ==
    LET p == st[1] IN
    CASE re.op = "lit" ->
           IF p + Len(re.s) - 1 <= Len(t) /\ SubSeq(t, p, p + Len(re.s) - 1) = re.s
           THEN << <<p + Len(re.s), st[2], st[3]>> >> ELSE <<>>
      [] re.op = "set" ->
           IF p <= Len(t) /\ t[p] \in re.set
           THEN << <<p + 1, st[2], st[3]>> >> ELSE <<>>
      [] re.op = "cat"  -> Bind(M(re.a, t, st), re.b, t)
      [] re.op = "alt"  -> M(re.a, t, st) \o M(re.b, t, st)
      [] re.op = "opt"  -> M(re.a, t, st) \o <<st>>
      [] re.op = "star" -> Bind(M(re.a, t, st), re, t) \o <<st>>
      [] re.op = "grp"  ->
           LET r == M(re.a, t, st) IN [i \in 1..Len(r) |-> <<r[i][1], p, r[i][1]>>]

Bind(sts, re, t) ==
    IF sts = <<>> THEN <<>> ELSE M(re, t, Head(sts)) \o Bind(Tail(sts), re, t)

NoMatch == [found |-> FALSE, start |-> 0, group1 |-> <<>>]

\* re.search(pattern, t): the first match at the leftmost start that has one
RECURSIVE SearchFrom(_, _, _)
SearchFrom(re, t, i) ==
    IF i > Len(t) + 1 THEN NoMatch
    ELSE LET r == M(re, t, <<i, 0, 0>>) IN
         IF r = <<>> THEN SearchFrom(re, t, i + 1)
         ELSE [found |-> TRUE, start |-> i,
               group1 |-> SubSeq(t, r[1][2], r[1][3] - 1)]

re_search(re, t) == SearchFrom(re, t, 1)

-----------------------------------------------------------------------------
(* The patterns *)

Space == {" ", "\t"}                                     \* \s

Number == Grp(Cat(Plus(Set(DigitSet)),                   \* (\d+(?:\.\d+)?)
                  Opt(Cat(Lit(<<".">>), Plus(Set(DigitSet))))))

Ten == Lit(<<"1", "0">>)

\* score[:\s]+(\d+(?:\.\d+)?)
PScore == CatAll(<<Lit(<<"s", "c", "o", "r", "e">>), Plus(Set({":"} \cup Space)), Number>>)

\* (\d+(?:\.\d+)?)[/\s]*(?:out of |/)?\s*10
POutOf == CatAll(<<Number, Star(Set({"/"} \cup Space)),
                   Opt(Alt(Lit(<<"o", "u", "t", " ", "o", "f", " ">>), Lit(<<"/">>))),
                   Star(Set(Space)), Ten>>)

\* rating[:\s]+(\d+(?:\.\d+)?)
PRating == CatAll(<<Lit(<<"r", "a", "t", "i", "n", "g">>), Plus(Set({":"} \cup Space)), Number>>)

\* (\d+(?:\.\d+)?)[/\s]*10
PSlash == CatAll(<<Number, Star(Set({"/"} \cup Space)), Ten>>)

\* commercial value[:\s]+(\d+(?:\.\d+)?)
PCommercial ==
    CatAll(<<Lit(<<"c", "o", "m", "m", "e", "r", "c", "i", "a", "l", " ", "v", "a", "l", "u", "e">>),
             Plus(Set({":"} \cup Space)), Number>>)

\* value[:\s]+(\d+(?:\.\d+)?)
PValue == CatAll(<<Lit(<<"v", "a", "l", "u", "e">>), Plus(Set({":"} \cup Space)), Number>>)

\* mutant: the second pattern lost, the rating pattern in its place
ScorePatternsNoOutOf == <<PScore, PRating, PRating, PSlash>>

\* mutant: the scale-suffix pattern tried before the score label
ScorePatternsSuffixFirst == <<POutOf, PScore, PRating, PSlash>>

\* patterns of ProductAnalysisEngine.extract_numeric_score
ScorePatterns == <<PScore, POutOf, PRating, PSlash>>

\* patterns of KeywordAnalyzer.extract_numeric_score
ValuePatterns == <<PCommercial, PValue, POutOf>>

-----------------------------------------------------------------------------
(* The two extractors *)

\* mutant: the upper clamp left out, max(1.0, score)
ClampNoUpper(score) == IF score > F(1, 0) THEN score ELSE F(1, 0)

\* min(10.0, max(1.0, score))
Clamp(score) ==
    LET lo == IF score > F(1, 0) THEN score ELSE F(1, 0)
    IN  IF lo < F(10, 0) THEN lo ELSE F(10, 0)

\* mutant: the default clamped like a matched value
NoMatchClamped(d) == PyFloat(Clamp(d))

\* mutant: the final return left out
NoMatchNone(d) == PyNone

\* the value returned when the loop ends with no pattern having returned
NoMatchResult(d) == PyFloat(d)

\* ProductAnalysisEngine.extract_numeric_score: the loop from pattern k on.
\* The result carries the pattern that produced the value (0: the default).
RECURSIVE ScoreLoop(_, _, _)
ScoreLoop(k, t, d) ==
    IF k > Len(ScorePatterns) THEN [value |-> NoMatchResult(d), fired |-> 0]
    ELSE LET match == re_search(ScorePatterns[k], Lower(t)) IN
         IF match.found
         THEN LET score == float(match.group1) IN
              IF score.ok
              THEN [value |-> PyFloat(Clamp(score.v)), fired |-> k]
              ELSE ScoreLoop(k + 1, t, d)             \* except ValueError: continue
         ELSE ScoreLoop(k + 1, t, d)

\* mutant: a positions-first scan, the match that starts leftmost in the
\* text decides, whichever pattern it belongs to
PositionsFirst(t, d) ==
    LET lt  == Lower(t)
        ms  == [k \in 1..Len(ScorePatterns) |-> re_search(ScorePatterns[k], lt)]
        hit == {k \in 1..Len(ScorePatterns) : ms[k].found}
    IN  IF hit = {} THEN [value |-> NoMatchResult(d), fired |-> 0]
        ELSE LET k == CHOOSE k \in hit : \A j \in hit :
                          \/ ms[k].start < ms[j].start
                          \/ ms[k].start = ms[j].start /\ k <= j
             IN  [value |-> PyFloat(Clamp(float(ms[k].group1).v)), fired |-> k]

extract_numeric_score(t, d) == ScoreLoop(1, t, d)

\* KeywordAnalyzer.extract_numeric_score: the loop from pattern k on
RECURSIVE ValueLoop(_, _, _)
ValueLoop(k, t, d) ==
    IF k > Len(ValuePatterns) THEN [value |-> PyFloat(d), fired |-> 0]
    ELSE LET match == re_search(ValuePatterns[k], Lower(t)) IN
         IF match.found
         THEN LET score == float(match.group1) IN
              IF score.ok
              THEN [value |-> PyFloat(score.v), fired |-> k]
              ELSE ValueLoop(k + 1, t, d)             \* except ValueError: continue
         ELSE ValueLoop(k + 1, t, d)

KeywordAnalyzer_extract_numeric_score(t, d) == ValueLoop(1, t, d)

-----------------------------------------------------------------------------
(* Inputs of the extractors *)

Segments == {
    <<"s", "c", "o", "r", "e", ":", " ", "1">>,
    <<"S", "c", "o", "r", "e", ":", "\t">>,
    <<"3", "/", "1", "0">>,
    <<" ", "o", "u", "t", " ", "o", "f", " ", "1", "0">>,
    <<"r", "a", "t", "i", "n", "g", ":", " ", "9">>,
    <<"v", "a", "l", "u", "e", ":", " ", "2">>,
    <<"c", "o", "m", "m", "e", "r", "c", "i", "a", "l", " ">>,
    <<"1">>,
    <<"0">>,
    <<"5">>,
    <<".">>,
    <<" ">> }

RECURSIVE Flatten(_)
Flatten(ss) == IF ss = <<>> THEN <<>> ELSE Head(ss) \o Flatten(Tail(ss))

Texts == UNION {{Flatten(ss) : ss \in [1..n -> Segments]} : n \in 0..MaxSegs}

\* the source's default 5.0 and a value outside [1.0, 10.0]
Defaults == {F(5, 0), F(12, 0)}

-----------------------------------------------------------------------------
(* Specification of the extractors: one call per behaviour *)

EmptyDict == [k \in {} |-> PyNone]

Init ==
    /\ text \in Texts
    /\ default \in Defaults
    /\ pc = "ready"
    /\ result = PyNone
    /\ fired = 0
    /\ analysis = EmptyDict
    /\ competition_score = PyNone
    /\ composite = PyNone
    /\ BatchIdle
    /\ FactorIdle
    /\ CollectIdle
    /\ WorkflowIdle

\* a call of ProductAnalysisEngine.extract_numeric_score(text, default)
CallScore ==
    /\ pc = "ready"
    /\ LET r == extract_numeric_score(text, default) IN
         /\ result' = r.value
         /\ fired' = r.fired
    /\ pc' = "score"
    /\ UNCHANGED <<text, default>>
    /\ UNCHANGED <<scoreVars, batchVars, factorVars, collectVars, workflowVars>>

\* a call of KeywordAnalyzer.extract_numeric_score(text, default)
CallValue ==
    /\ pc = "ready"
    /\ LET r == KeywordAnalyzer_extract_numeric_score(text, default) IN
         /\ result' = r.value
         /\ fired' = r.fired
    /\ pc' = "value"
    /\ UNCHANGED <<text, default>>
    /\ UNCHANGED <<scoreVars, batchVars, factorVars, collectVars, workflowVars>>

Next == CallScore \/ CallValue

Spec == Init /\ [][Next]_vars

-----------------------------------------------------------------------------
(* ProductAnalysisEngine.calculate_opportunity_score *)

\* dict.get(key, dflt)
DictGet(dict, key, dflt) == IF key \in DOMAIN dict THEN dict[key] ELSE dflt

\* mutant: the weights of trend and profit exchanged
weightsSwapped ==
    [trend_score |-> 30, profit_potential |-> 25, market_demand |-> 30,
     competition_score |-> 15]

\* mutant: one weight lowered without rebalancing the others
weightsUnbalanced ==
    [trend_score |-> 20, profit_potential |-> 30, market_demand |-> 30,
     competition_score |-> 15]

\* mutant: one weight raised without rebalancing the others
weightsOver ==
    [trend_score |-> 45, profit_potential |-> 30, market_demand |-> 30,
     competition_score |-> 15]

\* the weights, in hundredths
weights ==
    [trend_score |-> 25, profit_potential |-> 30, market_demand |-> 30,
     competition_score |-> 15]

competition_scores ==
    ("Low" :> F(9, 0)) @@ ("Medium" :> F(6, 0)) @@ ("High" :> F(4, 0))
        @@ ("Very High" :> F(2, 0)) @@ ("Unknown" :> F(5, 0))

\* mutant: an unrecognized label falls to 0.0 instead of 5.0
CompetitionScoreZero(a) ==
    DictGet(competition_scores, DictGet(a, "competition_level", "Unknown"), F(0, 0))

\* competition_scores.get(analysis.get('competition_level', 'Unknown'), 5.0)
CompetitionScore(a) ==
    DictGet(competition_scores, DictGet(a, "competition_level", "Unknown"), F(5, 0))

\* mutant: an absent factor counts as 0.0
opportunity_scoreZeroDefault(a, cs) ==
    DictGet(a, "trend_score", F(0, 0)) * weights.trend_score
    + DictGet(a, "profit_potential", F(0, 0)) * weights.profit_potential
    + DictGet(a, "market_demand", F(0, 0)) * weights.market_demand
    + cs * weights.competition_score

\* The weighted sum, exact, in units of 1 / (100 * Scale)
opportunity_score(a, cs) ==
    DictGet(a, "trend_score", F(5, 0)) * weights.trend_score
    + DictGet(a, "profit_potential", F(5, 0)) * weights.profit_potential
    + DictGet(a, "market_demand", F(5, 0)) * weights.market_demand
    + cs * weights.competition_score

\* round(x, 2) of the double nearest to x / (100 * Scale), x >= 0, as the set
\* of values it can return.  Off a tie the double rounds as the exact sum
\* does.  On an exact tie (x.xx5) the double lies a rounding error above or
\* below it, and round returns either neighbour.
round2(x) ==
    LET h == x \div Scale
        r == x % Scale
        u == Scale \div 100
    IN  IF 2 * r < Scale THEN {h * u}
        ELSE IF 2 * r > Scale THEN {(h + 1) * u}
        ELSE {h * u, (h + 1) * u}

\* mutant: the composite clamped into [1.0, 10.0] before it is returned
calculate_opportunity_scoreClamped(a) ==
    {Clamp(s) : s \in round2(opportunity_score(a, CompetitionScore(a)))}

calculate_opportunity_score(a) == round2(opportunity_score(a, CompetitionScore(a)))

-----------------------------------------------------------------------------
(* Inputs of calculate_opportunity_score *)

\* in range, on the borders, the competition proxies, and out of range
FactorValues ==
    {F(0, 0), F(1, 0), F(2, 0), F(2, 5), F(4, 0), F(5, 0), F(6, 0), F(7, 5),
     F(9, 0), F(10, 0), F(12, 0)}

FactorKeys == {"trend_score", "profit_potential", "market_demand"}

\* the labels of the table, an unrecognized label and a label in another case
Labels == {"Low", "Medium", "High", "Very High", "Unknown", "Extreme", "low"}

Analyses ==
    {n @@ c : n \in UNION {[D -> FactorValues] : D \in SUBSET FactorKeys},
              c \in {EmptyDict} \cup {[competition_level |-> l] : l \in Labels}}

-----------------------------------------------------------------------------
(* Specification of the scorer: one call per behaviour *)

InitScore ==
    /\ analysis \in Analyses
    /\ pc = "ready"
    /\ competition_score = PyNone
    /\ composite = PyNone
    /\ text = <<>>
    /\ default = F(5, 0)
    /\ result = PyNone
    /\ fired = 0
    /\ BatchIdle
    /\ FactorIdle
    /\ CollectIdle
    /\ WorkflowIdle

\* a call of calculate_opportunity_score(analysis)
CalcScore ==
    /\ pc = "ready"
    /\ competition_score' = PyFloat(CompetitionScore(analysis))
    /\ \E s \in calculate_opportunity_score(analysis) : composite' = PyFloat(s)
    /\ pc' = "scored"
    /\ UNCHANGED analysis
    /\ UNCHANGED <<extractVars, batchVars, factorVars, collectVars, workflowVars>>

NextScore == CalcScore

SpecScore == InitScore /\ [][NextScore]_vars

-----------------------------------------------------------------------------
(* Reading a text directly, without the matcher *)

HasAt(t, i, w) == i >= 1 /\ i + Len(w) - 1 <= Len(t) /\ SubSeq(t, i, i + Len(w) - 1) = w

Contains(t, w) == \E i \in 1..Len(t) : HasAt(t, i, w)

HasDigit(t) == \E i \in 1..Len(t) : t[i] \in DigitSet

\* the end (exclusive) of the longest run of characters of S that starts at j
RunEnd(t, j, S) ==
    CHOOSE e \in j..(Len(t) + 1) :
        /\ \A x \in j..(e - 1) : t[x] \in S
        /\ e = Len(t) + 1 \/ t[e] \notin S

\* the end (exclusive) of the longest number digits[.digits] that starts at j
NumberEnd(t, j) ==
    LET e == RunEnd(t, j, DigitSet) IN
    IF e + 1 <= Len(t) /\ t[e] = "." /\ t[e + 1] \in DigitSet
    THEN RunEnd(t, e + 1, DigitSet) ELSE e

\* where the number after the label at i starts: behind the separators
AfterLabel(t, i, label) == RunEnd(t, i + Len(label), {":"} \cup Space)

\* the positions where label, one or more of ":" and whitespace, and a digit
\* follow each other
Mentions(t, label) ==
    {i \in 1..Len(t) :
        /\ HasAt(t, i, label)
        /\ AfterLabel(t, i, label) > i + Len(label)
        /\ AfterLabel(t, i, label) <= Len(t)
        /\ t[AfterLabel(t, i, label)] \in DigitSet}

\* the complete number after the label at i
MentionValue(t, i, label) ==
    LET j == AfterLabel(t, i, label) IN float(SubSeq(t, j, NumberEnd(t, j) - 1)).v

Leftmost(S) == CHOOSE i \in S : \A j \in S : i <= j

InRange(v) == F(1, 0) <= v /\ v <= F(10, 0)

ScoreWord == <<"s", "c", "o", "r", "e">>

ScoreColon == <<"s", "c", "o", "r", "e", ":", " ">>

Score15 == <<"s", "c", "o", "r", "e", ":", " ", "1", "5">>

OneOneZero == <<"1", "1", "0">>

SlashTen == <<"/", "1", "0">>

OutOfTen == <<"o", "u", "t", " ", "o", "f", " ", "1", "0">>

-----------------------------------------------------------------------------
(* Claims about ProductAnalysisEngine.extract_numeric_score (Spec) *)

C2_ValueClamped ==
    pc = "value" =>
        /\ fired # 0 => InRange(result.v)
        /\ fired = 0 => result = PyFloat(default)

\* C3: when none of the patterns matches, in particular when the text has no
\* digit, the score extractor returns default itself, unclamped.
C3_NoMatchDefault ==
    pc = "score" =>
        /\ result # PyFloat(default) =>
               \E k \in 1..Len(ScorePatterns) :
                   re_search(ScorePatterns[k], Lower(text)).found
        /\ ~HasDigit(text) => result = PyFloat(default)

C3_Witness ==
    /\ pc = "score"
    /\ text # <<>>
    /\ ~HasDigit(text)
    /\ default = F(12, 0)
    /\ result = PyFloat(F(12, 0))

\* C4 (as claimed): every number N in [1,10] that follows a substring
\* "score: " anywhere in the text is the value returned, whatever else the
\* text contains (other mentions, further digits behind N).
C4_AnyScoreSubstring ==
    pc = "score" =>
        \A i \in 1..Len(text) : \A e \in (i + 7)..Len(text) :
            LET n == float(SubSeq(text, i + 7, e)) IN
            (HasAt(text, i, ScoreColon) /\ n.ok /\ InRange(n.v))
                => result = PyFloat(n.v)

\* C4 (amended): when the complete number N behind the leftmost "score"
\* mention of the lower-cased text (the label, one or more of ":" and
\* whitespace, then the longest digits[.digits]) lies in [1,10], N is
\* returned, whatever default is and whatever else the text contains.
C4_LeftmostScoreNumber ==
    pc = "score" =>
        LET lt == Lower(text)
            ms == Mentions(lt, ScoreWord)
        IN  (ms # {} /\ InRange(MentionValue(lt, Leftmost(ms), ScoreWord)))
                => result = PyFloat(MentionValue(lt, Leftmost(ms), ScoreWord))

C4_Witness ==
    /\ pc = "score"
    /\ Contains(text, SlashTen)
    /\ Cardinality(Mentions(Lower(text), ScoreWord)) = 2
    /\ default = F(12, 0)
    /\ result = PyFloat(F(1, 0))

\* C5: the scan is patterns-first on the lower-cased text: the patterns
\* before the one that fired match nowhere (all four when none fired), and
\* the result is the clamped number of the leftmost match of the pattern
\* that fired, in the order score-label, N/10 or N out of 10, rating-label,
\* bare N/10.  So a score mention decides wherever an "N/10" stands, and an
\* "N/10" or "N out of 10" decides over any rating mention.
C5_PatternsFirst ==
    pc = "score" =>
        LET lt == Lower(text)
            ms == Mentions(lt, ScoreWord)
        IN
        /\ ScorePatterns = <<PScore, POutOf, PRating, PSlash>>
        /\ \A k \in 1..(IF fired = 0 THEN Len(ScorePatterns) ELSE fired - 1) :
               ~re_search(ScorePatterns[k], lt).found
        /\ fired # 0 =>
               LET m == re_search(ScorePatterns[fired], lt) IN
               /\ m.found
               /\ \A i \in 1..(m.start - 1) : M(ScorePatterns[fired], lt, <<i, 0, 0>>) = <<>>
               /\ result = PyFloat(Clamp(float(m.group1).v))
        /\ ms # {} =>
               /\ fired = 1
               /\ result = PyFloat(Clamp(MentionValue(lt, Leftmost(ms), ScoreWord)))
        /\ (/\ ms = {}
            /\ \E i \in 1..Len(lt) :
                   /\ lt[i] \in DigitSet
                   /\ HasAt(lt, i + 1, SlashTen) \/ HasAt(lt, i + 2, OutOfTen))
               => fired = 2

C5_Witness ==
    /\ pc = "score"
    /\ HasAt(text, 1, <<"3", "/", "1", "0">>)
    /\ Mentions(Lower(text), ScoreWord) # {}
    /\ fired = 1
    /\ result = PyFloat(F(1, 0))

\* C6 (as claimed): with no "score" label in the text, the second pattern
\* fires only on a number followed by "/10" or "out of 10"; the text "110"
\* yields default.
C6_ScaleSuffixNeeded ==
    pc = "score" =>
        LET lt == Lower(text) IN
        /\ (~Contains(lt, ScoreWord) /\ fired = 2) =>
               \E i \in 1..Len(lt) :
                   /\ lt[i] \in DigitSet
                   /\ LET j == RunEnd(lt, i + 1, Space) IN
                        HasAt(lt, j, SlashTen) \/ HasAt(lt, j, OutOfTen)
        /\ text = OneOneZero => result = PyFloat(default)

\* C7: a call of the score extractor, pending or made, has a value, and the
\* value is a float: for the empty text, texts without numbers, with several numbers
\* and with malformed numeric tokens, and for every default.
C7_AlwaysFloat ==
    /\ pc = "ready" => extract_numeric_score(text, default).value.type = "float"
    /\ pc = "score" => result.type = "float"

C7_Witness ==
    /\ pc = "score"
    /\ Contains(text, <<".", ".">>)
    /\ HasDigit(text)
    /\ fired = 0
    /\ result = PyFloat(default)

-----------------------------------------------------------------------------
(* Claims about calculate_opportunity_score (SpecScore) *)

AllKeys == FactorKeys \cup {"competition_level"}

Hundredths(n) == n * (Scale \div 100)

\* C8: the competition proxy is Low 9.0, Medium 6.0, High 4.0, Very High 2.0,
\* Unknown 5.0, and 5.0 for every other label and for an absent key; the
\* call returns a float, and an absent key gives the composite an explicit
\* "Unknown" gives.
C8_CompetitionProxy ==
    pc = "scored" =>
        LET present == "competition_level" \in DOMAIN analysis
            proxy ==
                IF ~present THEN F(5, 0)
                ELSE CASE analysis.competition_level = "Low" -> F(9, 0)
                       [] analysis.competition_level = "Medium" -> F(6, 0)
                       [] analysis.competition_level = "High" -> F(4, 0)
                       [] analysis.competition_level = "Very High" -> F(2, 0)
                       [] OTHER -> F(5, 0)
        IN
        /\ competition_score = PyFloat(proxy)
        /\ composite.type = "float"
        /\ composite.v \in round2(opportunity_score(analysis, proxy))
        /\ ~present =>
               calculate_opportunity_score(analysis)
                   = calculate_opportunity_score(
                         analysis @@ [competition_level |-> "Unknown"])

C8_Witness ==
    /\ pc = "scored"
    /\ DOMAIN analysis = AllKeys
    /\ analysis.competition_level = "Extreme"
    /\ analysis.trend_score = F(10, 0)
    /\ competition_score = PyFloat(F(5, 0))

\* C9: for a record with all four fields the result is
\* trend*0.25 + profit*0.30 + demand*0.30 + proxy*0.15 rounded to two
\* decimals: a multiple of 0.01 at most 0.005 from the sum; (5,5,5,Unknown)
\* gives 5.00, (10,10,10,Low) gives 9.85, (1,1,1,Very High) gives 1.15.
C9_WeightedSum ==
    (pc = "scored" /\ DOMAIN analysis = AllKeys) =>
        LET x == 25 * analysis.trend_score + 30 * analysis.profit_potential
                 + 30 * analysis.market_demand + 15 * competition_score.v
            same(v, l) ==
                /\ analysis.trend_score = v
                /\ analysis.profit_potential = v
                /\ analysis.market_demand = v
                /\ analysis.competition_level = l
        IN
        /\ composite.v % (Scale \div 100) = 0
        /\ 2 * (100 * composite.v - x) <= Scale
        /\ 2 * (x - 100 * composite.v) <= Scale
        /\ same(F(5, 0), "Unknown") => composite.v = Hundredths(500)
        /\ same(F(10, 0), "Low") => composite.v = Hundredths(985)
        /\ same(F(1, 0), "Very High") => composite.v = Hundredths(115)

C9_Witness ==
    /\ pc = "scored"
    /\ DOMAIN analysis = AllKeys
    /\ analysis.trend_score = F(10, 0)
    /\ analysis.profit_potential = F(10, 0)
    /\ analysis.market_demand = F(10, 0)
    /\ analysis.competition_level = "Low"
    /\ composite = PyFloat(Hundredths(985))

\* C10: the four weights sum to 1.00, and when the three factors and the
\* competition proxy all equal v the composite equals v.
C10_WeightsSumToOne ==
    /\ weights.trend_score + weights.profit_potential + weights.market_demand
           + weights.competition_score = 100
    /\ (pc = "scored" /\ FactorKeys \subseteq DOMAIN analysis) =>
           \A v \in FactorValues :
               (/\ analysis.trend_score = v
                /\ analysis.profit_potential = v
                /\ analysis.market_demand = v
                /\ competition_score.v = v)
                   => composite.v = v

C10_Witness ==
    /\ pc = "scored"
    /\ FactorKeys \subseteq DOMAIN analysis
    /\ analysis.trend_score = F(9, 0)
    /\ analysis.profit_potential = F(9, 0)
    /\ analysis.market_demand = F(9, 0)
    /\ competition_score = PyFloat(F(9, 0))
    /\ composite = PyFloat(F(9, 0))

\* the analysis with every absent factor set to 5.0
WithNeutral(a) == [k \in FactorKeys \ DOMAIN a |-> F(5, 0)] @@ a

\* the analysis with every factor clamped into [1.0, 10.0]
WithClamped(a) ==
    [k \in DOMAIN a |-> IF k \in FactorKeys THEN Clamp(a[k]) ELSE a[k]]

\* C11: a factor absent from the record counts as 5.0, never as zero: the
\* composite of a record with factors missing is a composite of the same
\* record with those factors set to 5.0, and lies at most 0.005 from the
\* weighted sum taken with 5.0 in their place.
C11_AbsentIsNeutral ==
    (pc = "scored" /\ ~(FactorKeys \subseteq DOMAIN analysis)) =>
        LET b == WithNeutral(analysis)
            x == 25 * b.trend_score + 30 * b.profit_potential
                 + 30 * b.market_demand + 15 * competition_score.v
        IN
        /\ calculate_opportunity_score(analysis) = calculate_opportunity_score(b)
        /\ composite.v \in calculate_opportunity_score(b)
        /\ 2 * (100 * composite.v - x) <= Scale
        /\ 2 * (x - 100 * composite.v) <= Scale

C11_Witness ==
    /\ pc = "scored"
    /\ DOMAIN analysis = {"profit_potential", "market_demand", "competition_level"}
    /\ analysis.profit_potential = F(10, 0)
    /\ analysis.market_demand = F(10, 0)
    /\ analysis.competition_level = "Low"
    /\ composite = PyFloat(Hundredths(860))

\* C12 (as claimed): a supplied factor outside [1.0, 10.0] is never weighted
\* into the composite as it is: the composite is the one of the record with
\* its factors clamped into the range (the model has no rejected call).
C12_InputsValidated ==
    pc = "scored" =>
        \/ \A k \in FactorKeys \cap DOMAIN analysis : InRange(analysis[k])
        \/ composite.v \in calculate_opportunity_score(WithClamped(analysis))

\* C13: the value returned is the rounded weighted sum itself, with no clamp:
\* three factors 0.0 with competition Unknown give 0.75, outside [1.0, 10.0].
C13_NoFinalClamp ==
    pc = "scored" =>
        /\ composite.v \in
               round2(opportunity_score(analysis, CompetitionScore(analysis)))
        /\ (/\ DOMAIN analysis = AllKeys
            /\ analysis.trend_score = F(0, 0)
            /\ analysis.profit_potential = F(0, 0)
            /\ analysis.market_demand = F(0, 0)
            /\ analysis.competition_level = "Unknown")
               => composite.v = Hundredths(75) /\ ~InRange(composite.v)

C13_Witness ==
    /\ pc = "scored"
    /\ DOMAIN analysis = AllKeys
    /\ analysis.trend_score = F(0, 0)
    /\ analysis.profit_potential = F(0, 0)
    /\ analysis.market_demand = F(0, 0)
    /\ analysis.competition_level = "Unknown"
    /\ composite = PyFloat(Hundredths(75))

\* C14: when the three factors are present and each lies in [1.0, 10.0], the
\* returned value lies in [1.0, 10.0], whatever the competition label is and
\* also when it is absent.
C14_CompositeInRange ==
    (/\ pc = "scored"
     /\ FactorKeys \subseteq DOMAIN analysis
     /\ \A k \in FactorKeys : InRange(analysis[k]))
        => InRange(composite.v)

C14_Witness ==
    /\ pc = "scored"
    /\ DOMAIN analysis = FactorKeys
    /\ \A k \in FactorKeys : analysis[k] = F(10, 0)
    /\ composite = PyFloat(Hundredths(925))

-----------------------------------------------------------------------------
\* batch_analyze_products: the loop over the fetched products

\* the largest number of loop iterations explored
MaxProducts == 3

\* a row of products as the loop meets it: whether its title is a str (a NULL
\* title is None) and how save_analysis_results ends for it
BatchProducts ==
    [title_is_str : BOOLEAN, save : {"committed", "rolled_back", "rollback_raises"}]

\* values of analysis['opportunity_score']: 0.0 is what
\* analyze_product_opportunity leaves when a sub-analysis raised
OpportunityScores ==
    {Hundredths(0), Hundredths(549), Hundredths(550), Hundredths(749),
     Hundredths(750), Hundredths(985)}

\* the tier with strict comparisons
TierStrict(score) ==
    IF score > F(7, 5) THEN "high_opportunity"
    ELSE IF score > F(5, 5) THEN "medium_opportunity"
    ELSE "low_opportunity"

\* the counter the if/elif/else on score increments
TierOf(score) ==
    IF score >= F(7, 5) THEN "high_opportunity"
    ELSE IF score >= F(5, 5) THEN "medium_opportunity"
    ELSE "low_opportunity"

\* analysis_results as the function creates it
NewAnalysisResults ==
    [total_analyzed |-> 0, high_opportunity |-> 0, medium_opportunity |-> 0,
     low_opportunity |-> 0, recommendations |-> <<>>]

\* mutant: a recommendation appended for every counted product
CategorizeAppendAll(res, score) ==
    LET counted == [res EXCEPT !.total_analyzed = @ + 1]
        bumped == [counted EXCEPT ![TierOf(score)] = @ + 1]
    IN  [bumped EXCEPT !.recommendations = Append(@, [score |-> score])]

\* the body of the try block of one iteration, when nothing raises
Categorize(res, score) ==
    LET counted == [res EXCEPT !.total_analyzed = @ + 1]
        tier == TierOf(score)
        bumped == [counted EXCEPT ![tier] = @ + 1]
    IN IF tier = "high_opportunity"
       THEN [bumped EXCEPT !.recommendations = Append(@, [score |-> score])]
       ELSE bumped

InitBatch ==
    /\ pc = "ready"
    /\ text = <<>>
    /\ default = F(5, 0)
    /\ result = PyNone
    /\ fired = 0
    /\ analysis = EmptyDict
    /\ competition_score = PyNone
    /\ composite = PyNone
    /\ BatchIdle
    /\ FactorIdle
    /\ CollectIdle
    /\ WorkflowIdle

\* cursor.execute and fetchall: the rows arrive, or the query raises and the
\* outer except returns the error dict
BatchQuery ==
    /\ pc = "ready"
    /\ \E raised \in BOOLEAN :
        IF raised
        THEN /\ analysis_results' = [error |-> "str(e)"]
             /\ pc' = "returned"
        ELSE /\ analysis_results' = NewAnalysisResults
             /\ pc' = "loop"
    /\ UNCHANGED <<batch_product, batch_analysis, iterations>>
    /\ UNCHANGED <<extractVars, scoreVars, factorVars, collectVars, workflowVars>>

\* one iteration of the loop for the next row
BatchIterate ==
    /\ pc = "loop"
    /\ iterations < MaxProducts
    /\ \E row \in BatchProducts, opp \in OpportunityScores :
        /\ batch_product' = row
        /\ IF ~row.title_is_str
           THEN \* product['title'][:50] raises TypeError
                UNCHANGED <<batch_analysis, analysis_results>>
           ELSE /\ batch_analysis' = [opportunity_score |-> opp]
                /\ IF row.save = "rollback_raises"
                   THEN UNCHANGED analysis_results
                   ELSE analysis_results' = Categorize(analysis_results, opp)
    /\ iterations' = iterations + 1
    /\ UNCHANGED pc
    /\ UNCHANGED <<extractVars, scoreVars, factorVars, collectVars, workflowVars>>

\* the rows are exhausted: return analysis_results
BatchReturn ==
    /\ pc = "loop"
    /\ pc' = "returned"
    /\ UNCHANGED batchVars
    /\ UNCHANGED <<extractVars, scoreVars, factorVars, collectVars, workflowVars>>

NextBatch ==
    \/ BatchQuery
    \/ BatchIterate
    \/ BatchReturn

SpecBatch == InitBatch /\ [][NextBatch]_vars

\* C15: every product the batch counts as analysed goes to exactly one tier,
\* fixed by its opportunity_score: at least 7.5 is high, at least 5.5 and below
\* 7.5 is medium, anything lower is low; so 7.5 is high, 7.49 and 5.5 are
\* medium and 5.49 is low.
C15_TierByThreshold ==
    [][(/\ pc = "loop"
        /\ analysis_results'.total_analyzed = analysis_results.total_analyzed + 1)
          => LET opp == batch_analysis'.opportunity_score
                 Went(k) == analysis_results'[k] = analysis_results[k] + 1
                 Stayed(k) == analysis_results'[k] = analysis_results[k]
                 Only(k) ==
                     /\ Went(k)
                     /\ \A o \in {"high_opportunity", "medium_opportunity",
                                  "low_opportunity"} \ {k} : Stayed(o)
             IN /\ opp >= F(7, 5) => Only("high_opportunity")
                /\ (opp >= F(5, 5) /\ opp < F(7, 5)) => Only("medium_opportunity")
                /\ opp < F(5, 5) => Only("low_opportunity")
                /\ opp = Hundredths(750) => Only("high_opportunity")
                /\ opp = Hundredths(749) => Only("medium_opportunity")
                /\ opp = Hundredths(550) => Only("medium_opportunity")
                /\ opp = Hundredths(549) => Only("low_opportunity")]_vars

C15_Witness ==
    /\ pc = "loop"
    /\ iterations = 2
    /\ batch_product.title_is_str
    /\ batch_analysis = [opportunity_score |-> Hundredths(750)]
    /\ analysis_results.total_analyzed = 2
    /\ analysis_results.high_opportunity = 1
    /\ analysis_results.medium_opportunity = 0
    /\ analysis_results.low_opportunity = 1
    /\ Len(analysis_results.recommendations) = 1

-----------------------------------------------------------------------------
\* The factor methods: analyze_market_trends, analyze_competition,
\* calculate_profit_potential and assess_market_demand, with query_llama

PyInt(n) == [type |-> "int", v |-> n]

PyStr(chars) == [type |-> "str", s |-> chars]

\* a call left by an exception
Raised(e) == [raised |-> TRUE, exception |-> e]

\* the value of an int or a float, in units of 1/Scale
NumVal(x) == IF x.type = "int" THEN x.v * Scale ELSE x.v

\* truth value of a number or None, as `x and ...` tests it
Truthy(x) == x # PyNone /\ x.v # 0

\* str(n) of an int n >= 0
RECURSIVE str(_)
str(n) ==
    IF n < 10 THEN <<Digits[n + 1]>>
    ELSE str(n \div 10) \o <<Digits[(n % 10) + 1]>>

ErrorPrefix == <<"E", "r", "r", "o", "r", ":", " ">>

ConnectionErrorPrefix == <<"C", "o", "n", "n", "e", "c", "t", "i", "o", "n", " ", "e", "r", "r", "o", "r", ":", " ">>

\* what query_llama returns for what the request met: the "response" field of
\* the body on 200, "Error: <status>" on another status, "Connection error:
\* <message>" when requests.post or response.json() raised
query_llama(met) ==
    IF met.kind = "status"
    THEN IF met.status_code = 200
         THEN met.response
         ELSE ErrorPrefix \o str(met.status_code)
    ELSE ConnectionErrorPrefix \o met.message

\* segments of the texts the model answers with
ResponseSegments == {
    <<"s", "c", "o", "r", "e", ":", " ", "1">>,
    <<"r", "a", "t", "i", "n", "g", ":", " ", "9">>,
    <<"0">>,
    <<"5">>,
    <<".">>,
    <<" ">> }

Responses ==
    UNION {{Flatten(ss) : ss \in [1..n -> ResponseSegments]} : n \in 0..MaxSegs}

\* statuses other than 200 the service can answer with
FailureStatusCodes == {400, 404, 410, 500, 503, 510}

\* str(e) of exceptions the request can raise
ErrorMessages == {
    <<"[", "E", "r", "r", "n", "o", " ", "1", "1", "1", "]", " ", "C", "o", "n", "n", "e", "c", "t", "i", "o", "n", " ", "r", "e", "f", "u", "s", "e", "d">>,
    <<"[", "E", "r", "r", "n", "o", " ", "1", "1", "0", "]", " ", "C", "o", "n", "n", "e", "c", "t", "i", "o", "n", " ", "t", "i", "m", "e", "d", " ", "o", "u", "t">>,
    <<"R", "e", "a", "d", " ", "t", "i", "m", "e", "d", " ", "o", "u", "t", ".", " ", "(", "r", "e", "a", "d", " ", "t", "i", "m", "e", "o", "u", "t", "=", "3", "0", ")">> }

\* everything the request of query_llama can meet
LlamaOutcomes ==
    {[kind |-> "status", status_code |-> 200, response |-> r] : r \in Responses}
    \cup {[kind |-> "status", status_code |-> c, response |-> <<>>] :
            c \in FailureStatusCodes}
    \cup {[kind |-> "exception", message |-> m] : m \in ErrorMessages}

\* the dicts with key k bound to one of the values, and the dict without k
OptionalField(k, values) == {EmptyDict} \cup {k :> v : v \in values}

\* mutant: the breakpoints taken inclusively
CompetitionLevelInclusive(n) ==
    IF n <= 10 THEN [level |-> "Low", score |-> F(8, 0)]
    ELSE IF n <= 50 THEN [level |-> "Medium", score |-> F(6, 0)]
    ELSE IF n <= 200 THEN [level |-> "High", score |-> F(4, 0)]
    ELSE [level |-> "Very High", score |-> F(2, 0)]

\* the if/elif chain of analyze_competition on competition_count
CompetitionLevel(n) ==
    IF n < 10 THEN [level |-> "Low", score |-> F(8, 0)]
    ELSE IF n < 50 THEN [level |-> "Medium", score |-> F(6, 0)]
    ELSE IF n < 200 THEN [level |-> "High", score |-> F(4, 0)]
    ELSE [level |-> "Very High", score |-> F(2, 0)]

\* lengths of the list find_similar_products hands to analyze_competition
CompetitorCounts == {0, 9, 10, 49, 50, 100, 199, 200, 250}

Ebay == <<"e", "b", "a", "y">>

Amazon == <<"a", "m", "a", "z", "o", "n">>

Etsy == <<"e", "t", "s", "y">>

Shopify == <<"s", "h", "o", "p", "i", "f", "y">>

\* margin_estimates.get(platform, 0.25), in units of 1/Scale
margin_estimates(platform) ==
    CASE platform = Ebay -> Hundredths(25)
      [] platform = Amazon -> Hundredths(15)
      [] platform = Etsy -> Hundredths(35)
      [] platform = Shopify -> Hundredths(45)
      [] OTHER -> Hundredths(25)

\* mutant: the last branch gives 0.0
ProfitScoreNoFloor(estimated_profit) ==
    IF estimated_profit > F(50, 0) THEN F(9, 0)
    ELSE IF estimated_profit > F(25, 0) THEN F(7, 0)
    ELSE IF estimated_profit > F(10, 0) THEN F(5, 0)
    ELSE IF estimated_profit > F(5, 0) THEN F(3, 0)
    ELSE F(0, 0)

\* the score of the if/elif chain on estimated_profit
ProfitScore(estimated_profit) ==
    IF estimated_profit > F(50, 0) THEN F(9, 0)
    ELSE IF estimated_profit > F(25, 0) THEN F(7, 0)
    ELSE IF estimated_profit > F(10, 0) THEN F(5, 0)
    ELSE IF estimated_profit > F(5, 0) THEN F(3, 0)
    ELSE F(2, 0)

\* min(10.0, x)
Min10(x) == IF x < F(10, 0) THEN x ELSE F(10, 0)

\* mutant: the boost added without the cap
SalesBoostUncapped(score, sales_count) ==
    IF Truthy(sales_count) /\ sales_count.v > 100 THEN score + F(1, 5)
    ELSE IF Truthy(sales_count) /\ sales_count.v > 50 THEN score + F(1, 0)
    ELSE score

\* "Boost score if high sales volume"
SalesBoost(score, sales_count) ==
    IF Truthy(sales_count) /\ sales_count.v > 100 THEN Min10(score + F(1, 5))
    ELSE IF Truthy(sales_count) /\ sales_count.v > 50 THEN Min10(score + F(1, 0))
    ELSE score

\* calculate_profit_potential(product): None has no lower() and cannot be
\* multiplied by a float
calculate_profit_potential(p) ==
    LET price == DictGet(p, "price", PyInt(0))
        sales_count == DictGet(p, "sales_count", PyInt(0))
        platform == DictGet(p, "platform", PyStr(<<>>))
    IN  IF platform = PyNone THEN Raised("AttributeError")
        ELSE IF price = PyNone THEN Raised("TypeError")
        ELSE LET estimated_margin == margin_estimates(Lower(platform.s))
                 \* price * estimated_margin; the division comes first to
                 \* keep the product small, and is exact for the prices of
                 \* Prices, which have at most one decimal
                 estimated_profit ==
                     (NumVal(price) \div 100) * (estimated_margin \div (Scale \div 100))
             IN  [raised |-> FALSE,
                  score |-> SalesBoost(ProfitScore(estimated_profit), sales_count),
                  estimated_profit |-> estimated_profit,
                  estimated_margin |-> estimated_margin]

\* mutant: the second sales test an if of its own
DemandBoostBothSales(demand_score, sales_count, review_count) ==
    LET s1 == IF sales_count > 1000 THEN Min10(demand_score + F(1, 5))
              ELSE demand_score
        s2 == IF sales_count > 100 THEN Min10(s1 + F(1, 0)) ELSE s1
    IN  IF review_count > 500 THEN Min10(s2 + F(1, 0)) ELSE s2

\* "Adjust based on actual sales/review data"
DemandBoost(demand_score, sales_count, review_count) ==
    LET s1 == IF sales_count > 1000 THEN Min10(demand_score + F(1, 5))
              ELSE IF sales_count > 100 THEN Min10(demand_score + F(1, 0))
              ELSE demand_score
    IN  IF review_count > 500 THEN Min10(s1 + F(1, 0)) ELSE s1

\* assess_market_demand(product) after the extraction: None cannot be
\* compared with an int
assess_market_demand(p, demand_score) ==
    LET sales_count == DictGet(p, "sales_count", PyInt(0))
        review_count == DictGet(p, "review_count", PyInt(0))
    IN  IF sales_count = PyNone THEN Raised("TypeError")
        ELSE IF review_count = PyNone THEN Raised("TypeError")
        ELSE [raised |-> FALSE,
              score |-> Clamp(DemandBoost(demand_score, sales_count.v,
                                          review_count.v))]

Prices ==
    {PyNone, PyInt(0), PyFloat(F(20, 0)), PyFloat(F(20, 1)), PyFloat(F(40, 1)),
     PyInt(100), PyFloat(F(100, 1)), PyInt(200), PyFloat(F(200, 1)), PyInt(400)}

Platforms ==
    {PyNone, PyStr(Ebay), PyStr(<<"A", "m", "a", "z", "o", "n">>), PyStr(<<"E", "T", "S", "Y">>),
     PyStr(<<"S", "h", "o", "p", "i", "f", "y">>), PyStr(<<"w", "a", "l", "m", "a", "r", "t">>), PyStr(<<>>)}

ProfitSalesCounts == {PyNone, PyInt(0), PyInt(50), PyInt(51), PyInt(100), PyInt(101)}

ProfitProducts ==
    {a @@ b @@ c : a \in OptionalField("price", Prices),
                   b \in OptionalField("sales_count", ProfitSalesCounts),
                   c \in OptionalField("platform", Platforms)}

DemandSalesCounts == {PyNone, PyInt(100), PyInt(101), PyInt(1000), PyInt(1001)}

ReviewCounts == {PyNone, PyInt(500), PyInt(501)}

DemandProducts ==
    {a @@ b : a \in OptionalField("sales_count", DemandSalesCounts),
              b \in OptionalField("review_count", ReviewCounts)}

InitFactors ==
    /\ pc = "ready"
    /\ text = <<>>
    /\ default = F(5, 0)
    /\ result = PyNone
    /\ fired = 0
    /\ analysis = EmptyDict
    /\ competition_score = PyNone
    /\ composite = PyNone
    /\ BatchIdle
    /\ FactorIdle
    /\ CollectIdle
    /\ WorkflowIdle

\* a call of analyze_market_trends(product)
CallTrends ==
    /\ pc = "ready"
    /\ \E met \in LlamaOutcomes :
        LET answer == query_llama(met)
            r == extract_numeric_score(answer, F(5, 0))
        IN  /\ llama' = met
            /\ ai_response' = answer
            /\ text' = answer
            /\ result' = r.value
            /\ fired' = r.fired
            /\ returned' = [raised |-> FALSE, score |-> Clamp(r.value.v)]
    /\ product' = EmptyDict
    /\ pc' = "trends"
    /\ UNCHANGED <<default, competition_count>>
    /\ UNCHANGED <<scoreVars, batchVars, collectVars, workflowVars>>

\* a call of analyze_competition(product)
CallCompetition ==
    /\ pc = "ready"
    /\ \E n \in CompetitorCounts :
        /\ competition_count' = n
        /\ returned' = [raised |-> FALSE, level |-> CompetitionLevel(n).level,
                        score |-> CompetitionLevel(n).score,
                        competitor_count |-> n]
    /\ product' = EmptyDict
    /\ pc' = "competition"
    /\ UNCHANGED <<llama, ai_response>>
    /\ UNCHANGED <<extractVars, scoreVars, batchVars, collectVars, workflowVars>>

\* a call of calculate_profit_potential(product)
CallProfit ==
    /\ pc = "ready"
    /\ \E p \in ProfitProducts :
        /\ product' = p
        /\ returned' = calculate_profit_potential(p)
    /\ pc' = "profit"
    /\ UNCHANGED <<llama, ai_response, competition_count>>
    /\ UNCHANGED <<extractVars, scoreVars, batchVars, collectVars, workflowVars>>

\* a call of assess_market_demand(product)
CallDemand ==
    /\ pc = "ready"
    /\ \E met \in LlamaOutcomes :
        LET answer == query_llama(met)
            r == extract_numeric_score(answer, F(5, 0))
        IN  /\ llama' = met
            /\ ai_response' = answer
            /\ text' = answer
            /\ result' = r.value
            /\ fired' = r.fired
            /\ \E p \in DemandProducts :
                /\ product' = p
                /\ returned' = assess_market_demand(p, r.value.v)
    /\ pc' = "demand"
    /\ UNCHANGED <<default, competition_count>>
    /\ UNCHANGED <<scoreVars, batchVars, collectVars, workflowVars>>

NextFactors ==
    \/ CallTrends
    \/ CallCompetition
    \/ CallProfit
    \/ CallDemand

SpecFactors == InitFactors /\ [][NextFactors]_vars

\* C16: analyze_competition buckets the competitor count n by fixed
\* breakpoints: n < 10 is Low, 10 <= n < 50 is Medium, 50 <= n < 200 is High
\* and n >= 200 is Very High; 9 is Low and 10 Medium, 49 is Medium and 50
\* High, 199 is High and 200 Very High.
C16_Buckets ==
    pc = "competition" =>
        LET n == competition_count
            lv == returned.level
        IN  /\ returned.competitor_count = n
            /\ n < 10 => lv = "Low"
            /\ (10 <= n /\ n < 50) => lv = "Medium"
            /\ (50 <= n /\ n < 200) => lv = "High"
            /\ n >= 200 => lv = "Very High"
            /\ n = 9 => lv = "Low"
            /\ n = 10 => lv = "Medium"
            /\ n = 49 => lv = "Medium"
            /\ n = 50 => lv = "High"
            /\ n = 199 => lv = "High"
            /\ n = 200 => lv = "Very High"

C16_Witness ==
    /\ pc = "competition"
    /\ competition_count = 200
    /\ returned.level = "Very High"

\* C17: whenever calculate_profit_potential returns, the estimated profit is
\* the price times the platform margin (0.25 for a platform it does not know
\* and for an absent one); the score is 9.0, 7.0, 5.0, 3.0 or 2.0 by the strict
\* breakpoints 50, 25, 10 and 5 on that profit, plus one bonus (1.5 if
\* sales_count > 100, else 1.0 if sales_count > 50, none when sales_count is
\* absent, None or 0), capped at 10.0; it lies in [2.0, 10.0].
C17_ProfitScore ==
    (pc = "profit" /\ ~returned.raised) =>
        LET price == NumVal(DictGet(product, "price", PyInt(0)))
            sales == DictGet(product, "sales_count", PyInt(0))
            known == /\ "platform" \in DOMAIN product
                     /\ Lower(product.platform.s) \in {Ebay, Amazon, Etsy, Shopify}
            profit == returned.estimated_profit
            base == IF profit > F(50, 0) THEN F(9, 0)
                    ELSE IF profit > F(25, 0) THEN F(7, 0)
                    ELSE IF profit > F(10, 0) THEN F(5, 0)
                    ELSE IF profit > F(5, 0) THEN F(3, 0)
                    ELSE F(2, 0)
            bonus == IF sales = PyNone \/ sales.v = 0 THEN 0
                     ELSE IF sales.v > 100 THEN F(1, 5)
                     ELSE IF sales.v > 50 THEN F(1, 0)
                     ELSE 0
        IN  /\ profit * 100 = price * (returned.estimated_margin \div (Scale \div 100))
            /\ ~known => returned.estimated_margin = Hundredths(25)
            /\ returned.score = (IF base + bonus < F(10, 0) THEN base + bonus
                                 ELSE F(10, 0))
            /\ returned.score <= F(10, 0)
            /\ returned.score >= F(2, 0)

C17_Witness ==
    /\ pc = "profit"
    /\ product = [price |-> PyInt(400), sales_count |-> PyInt(101),
                  platform |-> PyStr(<<"S", "h", "o", "p", "i", "f", "y">>)]
    /\ returned = [raised |-> FALSE, score |-> F(10, 0),
                   estimated_profit |-> F(180, 0),
                   estimated_margin |-> Hundredths(45)]

\* C18: whenever assess_market_demand returns, its score is
\* min(10.0, base + salesBonus + reviewBonus) raised to at least 1.0, where
\* base is the value the extractor returned, salesBonus is 1.5 for
\* sales_count > 1000, else 1.0 for sales_count > 100, else 0, and reviewBonus
\* is 1.0 for review_count > 500, else 0: capping after each bonus equals
\* capping the sum once.
C18_CumulativeCap ==
    (pc = "demand" /\ ~returned.raised) =>
        LET base == result.v
            sales == DictGet(product, "sales_count", PyInt(0)).v
            reviews == DictGet(product, "review_count", PyInt(0)).v
            salesBonus == IF sales > 1000 THEN F(1, 5)
                          ELSE IF sales > 100 THEN F(1, 0)
                          ELSE 0
            reviewBonus == IF reviews > 500 THEN F(1, 0) ELSE 0
            sum == base + salesBonus + reviewBonus
            capped == IF sum < F(10, 0) THEN sum ELSE F(10, 0)
        IN  returned.score = (IF capped > F(1, 0) THEN capped ELSE F(1, 0))

C18_Witness ==
    /\ pc = "demand"
    /\ result = PyFloat(F(9, 5))
    /\ product = [sales_count |-> PyInt(1001), review_count |-> PyInt(501)]
    /\ returned = [raised |-> FALSE, score |-> F(10, 0)]

\* C19: when the service answers with a status other than 200 or the request
\* raises, the extractor gives the default: analyze_market_trends returns the
\* score 5.0 and assess_market_demand starts from the base 5.0, whatever digits
\* the status code or the error message holds.
C19_FailureGivesDefault ==
    (/\ pc \in {"trends", "demand"}
     /\ (llama.kind = "exception" \/ llama.status_code # 200))
        => /\ result = PyFloat(F(5, 0))
           /\ pc = "trends" => returned.score = F(5, 0)

\* C23: from the moment batch_analyze_products has built analysis_results,
\* after every iteration and at the return, total_analyzed is the sum of the
\* three tier counters and recommendations is as long as high_opportunity; an
\* iteration whose product raised leaves analysis_results as it was and the
\* loop goes on.
C23_CountersConsistent ==
    [][(/\ pc' \in {"loop", "returned"}
        /\ "total_analyzed" \in DOMAIN analysis_results')
          => /\ analysis_results'.total_analyzed
                    = analysis_results'.high_opportunity
                      + analysis_results'.medium_opportunity
                      + analysis_results'.low_opportunity
             /\ Len(analysis_results'.recommendations)
                    = analysis_results'.high_opportunity
             /\ (/\ iterations' = iterations + 1
                 /\ (\/ ~batch_product'.title_is_str
                     \/ batch_product'.save = "rollback_raises"))
                   => /\ analysis_results' = analysis_results
                      /\ pc' = "loop"]_vars

C23_Witness ==
    /\ pc = "returned"
    /\ iterations = MaxProducts
    /\ batch_product.save = "rollback_raises"
    /\ "total_analyzed" \in DOMAIN analysis_results
    /\ analysis_results.total_analyzed = 2
    /\ analysis_results.high_opportunity = 1
    /\ analysis_results.medium_opportunity = 1
    /\ Len(analysis_results.recommendations) = 1

-----------------------------------------------------------------------------
\* analyze_product_opportunity: the six steps under one try block

\* LIMIT 100 of the query of find_similar_products
SimilarLimit == 100

\* mutant: the query without its LIMIT
find_similar_productsUnlimited(matching, raised) ==
    IF raised THEN 0 ELSE matching

\* the length of the list find_similar_products returns when `matching` rows
\* satisfy the conditions: at most LIMIT rows, and [] when the try block raised
find_similar_products(matching, raised) ==
    IF raised THEN 0
    ELSE IF matching < SimilarLimit THEN matching
    ELSE SimilarLimit

\* the score analyze_market_trends returns for what the request met
analyze_market_trends(met) ==
    Clamp(extract_numeric_score(query_llama(met), F(5, 0)).value.v)

\* the score before the adjustments of assess_market_demand
demand_score(met) == extract_numeric_score(query_llama(met), F(5, 0)).value.v

\* analysis_result as the function creates it (the keys the scoring reads,
\* and its result)
NewAnalysisResult ==
    [trend_score |-> F(0, 0), competition_level |-> "Unknown",
     profit_potential |-> F(0, 0), market_demand |-> F(0, 0),
     opportunity_score |-> F(0, 0)]

\* answers of at most MaxSegs - 2 segments
ShortResponses ==
    UNION {{Flatten(ss) : ss \in [1..n -> ResponseSegments]} : n \in 0..(MaxSegs - 2)}

\* what a request made under analyze_product_opportunity can meet
OpportunityOutcomes ==
    {[kind |-> "status", status_code |-> 200, response |-> r] : r \in ShortResponses}
    \cup {[kind |-> "status", status_code |-> c, response |-> <<>>] : c \in {404, 410}}
    \cup {[kind |-> "exception", message |-> m] : m \in ErrorMessages}

\* rows of the products table: every column is a key, a NULL is None
OpportunityProducts ==
    [price : {PyNone, PyFloat(F(20, 0)), PyInt(400)},
     platform : {PyNone, PyStr(Ebay), PyStr(<<"S", "h", "o", "p", "i", "f", "y">>)},
     sales_count : {PyNone, PyInt(0), PyInt(101), PyInt(1001)},
     review_count : {PyNone, PyInt(0), PyInt(501)}]

InitOpportunity ==
    /\ pc = "ready"
    /\ text = <<>>
    /\ default = F(5, 0)
    /\ result = PyNone
    /\ fired = 0
    /\ analysis = EmptyDict
    /\ competition_score = PyNone
    /\ composite = PyNone
    /\ BatchIdle
    /\ FactorIdle
    /\ CollectIdle
    /\ WorkflowIdle

\* the call and step 1: trend_analysis = self.analyze_market_trends(product)
OppTrends ==
    /\ pc = "ready"
    /\ \E p \in OpportunityProducts, met \in OpportunityOutcomes :
        /\ product' = p
        /\ analysis' = [NewAnalysisResult EXCEPT
                            !.trend_score = analyze_market_trends(met)]
    /\ pc' = "opp_competition"
    /\ UNCHANGED <<competition_score, composite>>
    /\ UNCHANGED <<llama, ai_response, competition_count, returned>>
    /\ UNCHANGED <<extractVars, batchVars, collectVars, workflowVars>>

\* step 2: competition_analysis = self.analyze_competition(product)
OppCompetition ==
    /\ pc = "opp_competition"
    /\ \E matching \in CompetitorCounts, raised \in BOOLEAN :
        LET n == find_similar_products(matching, raised)
        IN  /\ competition_count' = n
            /\ analysis' = [analysis EXCEPT
                                !.competition_level = CompetitionLevel(n).level]
    /\ pc' = "opp_profit"
    /\ UNCHANGED <<competition_score, composite>>
    /\ UNCHANGED <<product, llama, ai_response, returned>>
    /\ UNCHANGED <<extractVars, batchVars, collectVars, workflowVars>>

\* step 3: profit_analysis = self.calculate_profit_potential(product); an
\* exception goes to the except clause and analysis_result is returned as is
OppProfit ==
    /\ pc = "opp_profit"
    /\ LET profit_analysis == calculate_profit_potential(product)
       IN  IF profit_analysis.raised
           THEN /\ returned' = analysis
                /\ pc' = "opp_returned"
                /\ UNCHANGED analysis
           ELSE /\ analysis' = [analysis EXCEPT
                                    !.profit_potential = profit_analysis.score]
                /\ pc' = "opp_demand"
                /\ UNCHANGED returned
    /\ UNCHANGED <<competition_score, composite>>
    /\ UNCHANGED <<product, llama, ai_response, competition_count>>
    /\ UNCHANGED <<extractVars, batchVars, collectVars, workflowVars>>

\* step 4: demand_analysis = self.assess_market_demand(product)
OppDemand ==
    /\ pc = "opp_demand"
    /\ \E met \in OpportunityOutcomes :
        LET demand_analysis == assess_market_demand(product, demand_score(met))
        IN  IF demand_analysis.raised
            THEN /\ returned' = analysis
                 /\ pc' = "opp_returned"
                 /\ UNCHANGED analysis
            ELSE /\ analysis' = [analysis EXCEPT
                                     !.market_demand = demand_analysis.score]
                 /\ pc' = "opp_score"
                 /\ UNCHANGED returned
    /\ UNCHANGED <<competition_score, composite>>
    /\ UNCHANGED <<product, llama, ai_response, competition_count>>
    /\ UNCHANGED <<extractVars, batchVars, collectVars, workflowVars>>

\* steps 5 and 6 and the return: get_ai_recommendation cannot raise and its
\* text is not read by the scoring;
\* analysis_result['opportunity_score'] = self.calculate_opportunity_score(...)
OppScore ==
    /\ pc = "opp_score"
    /\ competition_score' = PyFloat(CompetitionScore(analysis))
    /\ \E s \in calculate_opportunity_score(analysis) :
        /\ composite' = PyFloat(s)
        /\ analysis' = [analysis EXCEPT !.opportunity_score = s]
        /\ returned' = [analysis EXCEPT !.opportunity_score = s]
    /\ pc' = "opp_returned"
    /\ UNCHANGED <<product, llama, ai_response, competition_count>>
    /\ UNCHANGED <<extractVars, batchVars, collectVars, workflowVars>>

NextOpportunity ==
    \/ OppTrends
    \/ OppCompetition
    \/ OppProfit
    \/ OppDemand
    \/ OppScore

SpecOpportunity == InitOpportunity /\ [][NextOpportunity]_vars

\* C21: whenever analyze_product_opportunity is about to call
\* calculate_opportunity_score, the record it passes has trend_score,
\* profit_potential and market_demand in [1.0, 10.0] and a competition_level
\* among Low, Medium, High and Very High.
C21_CallerContract ==
    pc = "opp_score" =>
        /\ \A k \in FactorKeys : InRange(analysis[k])
        /\ analysis.competition_level \in {"Low", "Medium", "High", "Very High"}

C21_Witness ==
    /\ pc = "opp_score"
    /\ product.sales_count = PyInt(1001)
    /\ analysis.trend_score = F(1, 0)
    /\ analysis.profit_potential = F(10, 0)
    /\ analysis.market_demand = F(10, 0)
    /\ analysis.competition_level = "High"

\* C22: for every product row, also one holding None, the opportunity_score
\* of the returned result is calculate_opportunity_score of that result and
\* lies in [1.0, 10.0].
C22_CompositeIsBlend ==
    pc = "opp_returned" =>
        /\ returned.opportunity_score \in calculate_opportunity_score(returned)
        /\ InRange(returned.opportunity_score)

\* C24: the count analyze_competition buckets under analyze_product_opportunity
\* is at most 100, the level is never "Very High", and the proxy the scoring
\* uses is never 2.0.
C24_NeverVeryHigh ==
    pc \in {"opp_profit", "opp_demand", "opp_score", "opp_returned"} =>
        /\ competition_count <= 100
        /\ analysis.competition_level # "Very High"
        /\ competition_score # PyFloat(F(2, 0))

C24_Witness ==
    /\ pc = "opp_returned"
    /\ competition_count = 100
    /\ returned.competition_level = "High"
    /\ competition_score = PyFloat(F(4, 0))

-----------------------------------------------------------------------------
\* WorkflowManager.collect_product_data: the loop over keyword/category pairs

\* the largest number of keyword/category pairs explored
MaxSearches == 2

\* the keys of ProductDataManager.scrapers
PlatformNames == {"ebay", "etsy", "amazon", "shopify"}

\* numbers of products one scraper finds in one search; search_all_platforms
\* stores [] for a scraper that raised
FoundCounts == {0, 1, 2}

\* a list of n products of a platform
ProductList(platform, n) == [i \in 1..n |-> [platform |-> platform]]

\* the dicts search_all_platforms can return: a list for every scraper
PlatformResults ==
    {[q \in PlatformNames |-> ProductList(q, found[q])] :
        found \in [PlatformNames -> FoundCounts]}

RECURSIVE SumLen(_, _)
\* sum of len(lists[k]) over the keys
SumLen(lists, keys) ==
    IF keys = {} THEN 0
    ELSE LET k == CHOOSE x \in keys : TRUE
         IN  Len(lists[k]) + SumLen(lists, keys \ {k})

\* mutant: the list of a platform replaced by the new products
CombineReplacing(all, platform_results) ==
    [q \in DOMAIN all \cup DOMAIN platform_results |->
        IF q \in DOMAIN platform_results THEN platform_results[q] ELSE all[q]]

\* "Combine results": all_results after the inner loop over platform_results
Combine(all, platform_results) ==
    [q \in DOMAIN all \cup DOMAIN platform_results |->
        (IF q \in DOMAIN all THEN all[q] ELSE <<>>)
        \o (IF q \in DOMAIN platform_results THEN platform_results[q] ELSE <<>>)]

InitCollect ==
    /\ pc = "collecting"
    /\ all_results = EmptyDict
    /\ total_products = 0
    /\ searches = 0
    /\ collection_results = PyNone
    /\ text = <<>>
    /\ default = F(5, 0)
    /\ result = PyNone
    /\ fired = 0
    /\ analysis = EmptyDict
    /\ competition_score = PyNone
    /\ composite = PyNone
    /\ BatchIdle
    /\ FactorIdle
    /\ WorkflowIdle

\* one keyword/category pair: search_all_platforms returns and its lists are
\* combined, or it raises and the pair is skipped
CollectSearch ==
    /\ pc = "collecting"
    /\ searches < MaxSearches
    /\ \E raised \in BOOLEAN, platform_results \in PlatformResults :
        IF raised
        THEN UNCHANGED <<all_results, total_products>>
        ELSE /\ all_results' = Combine(all_results, platform_results)
             /\ total_products' = total_products
                    + SumLen(platform_results, DOMAIN platform_results)
    /\ searches' = searches + 1
    /\ UNCHANGED <<pc, collection_results>>
    /\ UNCHANGED <<extractVars, scoreVars, batchVars, factorVars, workflowVars>>

\* the pairs are exhausted: the dict returned
CollectReturn ==
    /\ pc = "collecting"
    /\ collection_results' =
            [total_products_found |-> total_products,
             platforms |-> DOMAIN all_results,
             products_by_platform |-> [k \in DOMAIN all_results |-> Len(all_results[k])],
             products |-> all_results]
    /\ pc' = "collected"
    /\ UNCHANGED <<all_results, total_products, searches>>
    /\ UNCHANGED <<extractVars, scoreVars, batchVars, factorVars, workflowVars>>

NextCollect ==
    \/ CollectSearch
    \/ CollectReturn

SpecCollect == InitCollect /\ [][NextCollect]_vars

RECURSIVE SumOf(_, _)
SumOf(counts, keys) ==
    IF keys = {} THEN 0
    ELSE LET k == CHOOSE x \in keys : TRUE
         IN  counts[k] + SumOf(counts, keys \ {k})

\* C27: in the dict collect_product_data returns, after any sequence of
\* searches (skipped ones included), total_products_found is the sum of the
\* values of products_by_platform, products_by_platform[p] is the length of
\* products[p] for every platform p, and platforms is the key set of products.
C27_CollectionConsistent ==
    pc = "collected" =>
        LET r == collection_results
        IN  /\ r.total_products_found
                  = SumOf(r.products_by_platform, DOMAIN r.products_by_platform)
            /\ DOMAIN r.products_by_platform = DOMAIN r.products
            /\ \A q \in DOMAIN r.products :
                  r.products_by_platform[q] = Len(r.products[q])
            /\ r.platforms = DOMAIN r.products

C27_Witness ==
    /\ pc = "collected"
    /\ searches = MaxSearches
    /\ collection_results.total_products_found = 3
    /\ collection_results.platforms = PlatformNames
    /\ collection_results.products_by_platform.etsy = 3

-----------------------------------------------------------------------------
\* WorkflowManager.trigger_research_workflow and send_workflow_notification

\* datetime.now().isoformat() at tick n
isoformat(n) == PyStr(str(n))

NotAvailable == PyStr(<<"N", "/", "A">>)

\* the names under which the five steps record their results, in order
StepNames == <<"collection", "storage", "analysis", "insights", "notifications">>

\* workflow_result as the function creates it
NewWorkflowResult(now) ==
    [status |-> "running", started_at |-> isoformat(now), results |-> EmptyDict]

\* workflow_result['results'][step] = value
Record(wr, step, value) == [wr EXCEPT !.results = (step :> value) @@ @]

\* mutant: the except clause stores the error and leaves the status
FailedStillRunning(wr, e) == ("error" :> e) @@ wr

\* the except clause: status 'failed' and the error text
Failed(wr, e) == ("status" :> "failed") @@ ("error" :> e) @@ wr

\* the two assignments after step 5
Completed(wr, now) ==
    ("status" :> "completed") @@ ("completed_at" :> isoformat(now)) @@ wr

\* the first five elements of a list, list[:5]
FirstFive(list) == SubSeq(list, 1, IF Len(list) < 5 THEN Len(list) ELSE 5)

\* the payload send_workflow_notification builds from workflow_result
NotificationData(wr) ==
    LET insights == DictGet(wr.results, "insights", EmptyDict)
    IN  [status |-> wr.status,
         summary |->
            [total_products |->
                DictGet(DictGet(wr.results, "collection", EmptyDict),
                        "total_products_found", 0),
             high_opportunities |->
                DictGet(DictGet(wr.results, "analysis", EmptyDict),
                        "high_opportunity", 0),
             top_platform |-> NotAvailable,
             completion_time |-> DictGet(wr, "completed_at", NotAvailable)],
         top_opportunities |->
            IF "top_opportunities" \in DOMAIN insights
            THEN FirstFive(insights.top_opportunities)
            ELSE <<>>]

\* what send_workflow_notification returns for what requests.post met
NotificationResult(met) ==
    IF met.kind = "status"
    THEN [notification_sent |-> met.status_code = 200,
          response_code |-> met.status_code]
    ELSE [notification_sent |-> FALSE, error |-> met.message]

\* results of collect_product_data (the count the notification reads)
CollectionOutcomes == {[total_products_found |-> n] : n \in {0, 3}}

\* results of store_products
StorageOutcomes ==
    {[products_stored |-> 3, errors |-> 0], [products_stored |-> 0, errors |-> 1]}

\* results of batch_analyze_products: the counters, or the error dict
AnalysisOutcomes ==
    {[total_analyzed |-> 2, high_opportunity |-> 1],
     [total_analyzed |-> 2, high_opportunity |-> 0],
     [error |-> "str(e)"]}

\* results of generate_market_report: a report, or the error dict
InsightOutcomes ==
    {[top_opportunities |-> <<>>],
     [top_opportunities |-> <<1, 2, 3, 4, 5, 6>>],
     [error |-> "str(e)"]}

\* what the post to the webhook can meet
WebhookOutcomes ==
    {[kind |-> "status", status_code |-> c] : c \in {200, 500}}
    \cup {[kind |-> "exception", message |-> "str(e)"]}

InitWorkflow ==
    /\ pc = "wf_collection"
    /\ clock = 0
    /\ workflow_result = NewWorkflowResult(0)
    /\ notification_data = PyNone
    /\ text = <<>>
    /\ default = F(5, 0)
    /\ result = PyNone
    /\ fired = 0
    /\ analysis = EmptyDict
    /\ competition_score = PyNone
    /\ composite = PyNone
    /\ BatchIdle
    /\ FactorIdle
    /\ CollectIdle

\* a step whose call (or the print before it) raises: the except clause, and
\* the return
StepRaises ==
    /\ workflow_result' = Failed(workflow_result, "str(e)")
    /\ pc' = "wf_returned"
    /\ UNCHANGED notification_data

\* Step 1: Data Collection
WfCollect ==
    /\ pc = "wf_collection"
    /\ \E raised \in BOOLEAN, collection \in CollectionOutcomes :
        IF raised THEN StepRaises
        ELSE /\ workflow_result' = Record(workflow_result, "collection", collection)
             /\ pc' = "wf_storage"
             /\ UNCHANGED notification_data
    /\ clock' = clock + 1
    /\ UNCHANGED <<extractVars, scoreVars, batchVars, factorVars, collectVars>>

\* Step 2: Store products in database
WfStore ==
    /\ pc = "wf_storage"
    /\ \E raised \in BOOLEAN, storage \in StorageOutcomes :
        IF raised THEN StepRaises
        ELSE /\ workflow_result' = Record(workflow_result, "storage", storage)
             /\ pc' = "wf_analysis"
             /\ UNCHANGED notification_data
    /\ clock' = clock + 1
    /\ UNCHANGED <<extractVars, scoreVars, batchVars, factorVars, collectVars>>

\* Step 3: AI Analysis
WfAnalyze ==
    /\ pc = "wf_analysis"
    /\ \E raised \in BOOLEAN, batch \in AnalysisOutcomes :
        IF raised THEN StepRaises
        ELSE /\ workflow_result' = Record(workflow_result, "analysis", batch)
             /\ pc' = "wf_insights"
             /\ UNCHANGED notification_data
    /\ clock' = clock + 1
    /\ UNCHANGED <<extractVars, scoreVars, batchVars, factorVars, collectVars>>

\* Step 4: Generate insights
WfInsights ==
    /\ pc = "wf_insights"
    /\ \E raised \in BOOLEAN, market_report \in InsightOutcomes :
        IF raised THEN StepRaises
        ELSE /\ workflow_result' = Record(workflow_result, "insights", market_report)
             /\ pc' = "wf_notifications"
             /\ UNCHANGED notification_data
    /\ clock' = clock + 1
    /\ UNCHANGED <<extractVars, scoreVars, batchVars, factorVars, collectVars>>

\* Step 5: Send notifications, then status and completed_at, and the return
WfNotify ==
    /\ pc = "wf_notifications"
    /\ \E raised \in BOOLEAN, met \in WebhookOutcomes :
        IF raised THEN StepRaises
        ELSE /\ notification_data' = NotificationData(workflow_result)
             /\ workflow_result' =
                    Completed(Record(workflow_result, "notifications",
                                     NotificationResult(met)),
                              clock + 1)
             /\ pc' = "wf_returned"
    /\ clock' = clock + 1
    /\ UNCHANGED <<extractVars, scoreVars, batchVars, factorVars, collectVars>>

NextWorkflow ==
    \/ WfCollect
    \/ WfStore
    \/ WfAnalyze
    \/ WfInsights
    \/ WfNotify

\* every step ends: the calls have timeouts and the loops are bounded
SpecWorkflow == InitWorkflow /\ [][NextWorkflow]_vars /\ WF_vars(NextWorkflow)

\* the names of the first n steps
FirstSteps(n) == {StepNames[i] : i \in 1..n}

\* the number of steps that have to be recorded at a position of the workflow
StepsBefore(position) ==
    CASE position = "wf_collection" -> 0
      [] position = "wf_storage" -> 1
      [] position = "wf_analysis" -> 2
      [] position = "wf_insights" -> 3
      [] position = "wf_notifications" -> 4

\* C25: the five steps run in the order collection, storage, analysis,
\* insights, notification, each with the results of all earlier steps
\* recorded; the call always returns, never with the status 'running': it is
\* 'completed', with completed_at and without error, exactly when all five
\* results are recorded, whatever values they are, and 'failed', with error
\* and with the results of the steps that finished, otherwise.
C25_WorkflowOutcome ==
    /\ [](pc # "wf_returned" =>
            /\ workflow_result.status = "running"
            /\ DOMAIN workflow_result.results = FirstSteps(StepsBefore(pc)))
    /\ [](pc = "wf_returned" =>
            /\ workflow_result.status \in {"completed", "failed"}
            /\ workflow_result.status = "completed"
                    <=> DOMAIN workflow_result.results = FirstSteps(5)
            /\ workflow_result.status = "completed"
                    => /\ "completed_at" \in DOMAIN workflow_result
                       /\ "error" \notin DOMAIN workflow_result
            /\ workflow_result.status = "failed"
                    => /\ "error" \in DOMAIN workflow_result
                       /\ "completed_at" \notin DOMAIN workflow_result
                       /\ \E n \in 0..4 :
                            DOMAIN workflow_result.results = FirstSteps(n))
    /\ <>(pc = "wf_returned")

C25_Witness ==
    /\ pc = "wf_returned"
    /\ workflow_result.status = "completed"
    /\ "error" \in DOMAIN workflow_result.results.analysis
    /\ "error" \in DOMAIN workflow_result.results.insights
    /\ ~workflow_result.results.notifications.notification_sent

\* C26: the payload the completed workflow sent carries the status the
\* workflow returns and its completed_at as completion_time.
C26_NotificationReportsOutcome ==
    (pc = "wf_returned" /\ workflow_result.status = "completed") =>
        /\ notification_data.status = workflow_result.status
        /\ notification_data.summary.completion_time = workflow_result.completed_at

-----------------------------------------------------------------------------
\* The extractor of ProductAnalysisEngine without its fourth pattern

RECURSIVE LoopOver(_, _, _, _)
\* the loop of the extractor over the patterns ps, from pattern k on
LoopOver(ps, k, t, d) ==
    IF k > Len(ps) THEN PyFloat(d)
    ELSE LET match == re_search(ps[k], Lower(t)) IN
         IF match.found /\ float(match.group1).ok
         THEN PyFloat(Clamp(float(match.group1).v))
         ELSE LoopOver(ps, k + 1, t, d)

\* C28: the fourth pattern of ProductAnalysisEngine.extract_numeric_score
\* never produces the result: a text it matches is matched by the second
\* pattern too, and the extractor over the first three patterns alone returns
\* the same value for every text and every default.
C28_FourthPatternRedundant ==
    pc = "score" =>
        /\ fired # 4
        /\ re_search(PSlash, Lower(text)).found
              => re_search(POutOf, Lower(text)).found
        /\ result = LoopOver(<<PScore, POutOf, PRating>>, 1, text, default)

C28_Witness ==
    /\ pc = "score"
    /\ text = <<"3", "/", "1", "0">>
    /\ re_search(PSlash, Lower(text)).found
    /\ fired = 2
    /\ result = PyFloat(F(3, 0))

=============================================================================
